---- MODULE Spec2Model ----
(***************************************************************************)
(* Model of the file cache of pkg/files (file_cache.go, the revision with  *)
(* useCache and the mutex) and of the LoadedFile record (files.go).        *)
(*                                                                         *)
(* Goroutines call QueryKey, LoadFromPath and NewFromData on the one       *)
(* process-wide cache.  Every statement that touches shared state (the     *)
(* table, the mutex, a record's fields, the filesystem) is one step.  The  *)
(* map assignment of NewFromData has a begin and an end step: a lookup by  *)
(* another goroutine between the two is a data race on the Go map, whose   *)
(* outcomes (the runtime's fatal error, a lookup that misses, a lookup     *)
(* that sees the map as it was) are all possible.                          *)
(*                                                                         *)
(* Spec runs the goroutines concurrently over a filesystem that does not   *)
(* change; SpecSeq runs one call at a time and lets the filesystem change  *)
(* between calls.                                                          *)
(*                                                                         *)
(* The other parts of the repository have their own specifications, each   *)
(* over its own variables (the variables of the other parts stay as they   *)
(* start): SpecLines (LoadedFile.Lines), SpecInit (test detection and      *)
(* GlobalFileCache), SpecRunfile (RunfilePath) and SpecRev (the cache       *)
(* revision with DisallowKeyCollision).                                    *)
(***************************************************************************)
EXTENDS Naturals, Sequences, FiniteSets, TLC

\* ------------------------------------------------------------------ bounds
NumProcs == 2
MaxCalls == 2

\* Lines(): the longest Data, the scanner's token limit (bufio's
\* MaxScanTokenSize, scaled down), and how many times Lines() is called.
MaxDataLen    == 5
MaxTokenSize  == 2
MaxLinesCalls == 3

\* RunfilePath: the longest list bazel.ListRunfiles() returns.
MaxRunfiles == 2

Procs == 1..NumProcs

\* ------------------------------------------------------------- value sets
\* Some keys are paths (the key of LoadFileFromPath is the absolute path),
\* some are caller-chosen strings.
Keys  == {"/a", "k"}
Paths == {"/a"}
Data  == {"d1", "d2"}

\* What a path holds on the filesystem: nothing, a file that can be statted
\* but not read, or a readable file with its content.
Absent     == "absent"
NoPerm     == "noperm"
FileStates == {Absent, NoPerm} \cup Data

Nil     == 0          \* the nil *LoadedFile
NoStat  == "nostat"   \* the nil fs.FileInfo
NoData  == "nodata"   \* an unset []byte local
NoLines == <<>>       \* the nil []string: a slice nothing was appended to
NoKey   == ""

ErrNone     == "ok"
ErrStat     == "statting"
ErrRead     == "reading"
ErrKeyInUse == "key in use"
ErrScan     == "scanning file line by line"

\* Paths given to and found by RunfilePath, byte by byte: a, b/a, b\a, ba, b.
Slash       == "/"
Backslash   == "\\"
NoPath      == <<>>
RunfileNames ==
    {<<"a">>, <<"b", Slash, "a">>, <<"b", Backslash, "a">>, <<"b", "a">>, <<"b">>}

\* The lists bazel.ListRunfiles() can return.
RunfileLists ==
    UNION {[1..n -> {[Path |-> name] : name \in RunfileNames}] : n \in 0..MaxRunfiles}

\* What files.StatFile reports of a path: a file, no file, or a failure.
StatFound    == "found"
StatNotFound == "not found"
StatError    == "stat failed"
StatOutcomes == {StatFound, StatNotFound, StatError}

ErrNotTest    == "should only be called for tests"
ErrListing    == "listing runfiles"
ErrCannotFind == "cannot find"
ErrStatFile   == "stat"

\* The environment variables test detection reads, and the values they are
\* given: unset or empty, "1", and some other value.
BazelTestVar == "BAZEL_TEST"
BazelMarkers == <<"TEST_TARGET", "TEST_WORKSPACE", "TEST_TMPDIR">>
EnvVars      == {BazelTestVar} \cup {BazelMarkers[i] : i \in 1..Len(BazelMarkers)}
EnvValues(v) == IF v = BazelTestVar THEN {"", "1", "0"} ELSE {"", "x"}
Envs         == {e \in [EnvVars -> {"", "1", "0", "x"}] : \A v \in EnvVars : e[v] \in EnvValues(v)}

\* The bytes of a file whose lines are read: two letters, the newline and
\* the carriage return.
LF    == "\n"
CR    == "\r"
Bytes == {"a", "b", LF, CR}

ByteSeqs == UNION {[1..n -> Bytes] : n \in 0..MaxDataLen}

VARIABLES
    useCache,   \* fileCache.useCache
    files,      \* fileCache.files: key -> record pointer
    mu,         \* fileCache.mu: the goroutine holding it, or Nil
    heap,       \* the LoadedFile records allocated so far; a pointer is an index
    disk,       \* the filesystem: path -> FileStates
    pc,         \* where each goroutine is
    frame,      \* each goroutine's current call: arguments, locals, results
    fatal,      \* the runtime has aborted the process (concurrent map read and map write)
    ncalls,     \* how many calls have been started
    \* LoadedFile.Lines
    loadedFile, \* the LoadedFile whose Lines() is called
    lcall,      \* the Lines() calls so far: how many, how many scans, the last result
    \* test detection and GlobalFileCache
    env,                  \* the process environment: variable -> value
    testingFlag,          \* testing.Testing(): the binary is a Go test binary
    bazelCheckOnce,       \* the sync.Once of RunningAsBazelTest
    gRunningAsBazelTest,  \* the memoized answer of RunningAsBazelTest
    once,                 \* the sync.Once of GlobalFileCache
    gFileCache,           \* the global *fileCache: Nil, or the n-th instance constructed
    ipc,                  \* where each goroutine is in these functions
    iframe,               \* each goroutine's call: the function called, locals, results
    icalls,               \* how many of these calls have been started
    \* RunfilePath
    runfiles,   \* what bazel.ListRunfiles() returns: the entries, or an error
    rfcall,     \* the last call of RunfilePath: arguments, what the path held, results
    \* the cache revision with DisallowKeyCollision
    rev,        \* that revision's fileCache: files and DisallowKeyCollision
    revcall     \* the calls on it so far: how many, and the last one

cacheVars == <<useCache, files, mu, heap, disk, pc, frame, fatal, ncalls>>

linesVars == <<loadedFile, lcall>>

detectVars ==
    <<env, testingFlag, bazelCheckOnce, gRunningAsBazelTest, once, gFileCache,
      ipc, iframe, icalls>>

runfileVars == <<runfiles, rfcall>>

revVars == <<rev, revcall>>

nonCacheVars == <<linesVars, detectVars, runfileVars, revVars>>

nonLinesVars == <<cacheVars, detectVars, runfileVars, revVars>>

nonRunfileVars == <<cacheVars, linesVars, detectVars, revVars>>

nonRevVars == <<cacheVars, linesVars, detectVars, runfileVars>>

\* What test detection and GlobalFileCache leave alone: all but their own
\* variables and the two fields of the instance GlobalFileCache constructs.
nonDetectVars ==
    <<mu, heap, disk, pc, frame, fatal, ncalls, linesVars, runfileVars, revVars>>

vars == <<cacheVars, linesVars, detectVars, runfileVars, revVars>>

\* ----------------------------------------------------------- LoadedFile
\* FileInfo returned by os.Stat: the metadata of what the path held.
StatOf(state) == [of |-> state]

NewLoadedFile(key, data) ==
    [Key |-> key, Data |-> data, lines |-> NoLines, FromFile |-> FALSE, Stat |-> NoStat]

Path(lf) == IF lf.FromFile THEN lf.Key ELSE NoKey

\* ------------------------------------------------------------ filesystem
OsStat(path) == IF path \in Paths THEN disk[path] ELSE Absent

StatFails(path) == OsStat(path) = Absent

\* Variant: a read that never fails.
ReadNeverFails(path) == FALSE

ReadFails(path) == OsStat(path) \in {Absent, NoPerm}


\* ----------------------------------------------------------------- table
Present(key) == key \in DOMAIN files

\* Variant: a lookup whose result is dropped, so that no key is ever found.
LookupNothing(key) == Nil

Lookup(key) == IF Present(key) THEN files[key] ELSE Nil

\* The cache's mode, as the operations read it.
\* Variant: the mode is never switched off, the table is used under tests too.
UseCacheAlways == TRUE

UseCache == useCache

\* The guard in front of both key-present checks.
\* Variant: the overwrite flag read the wrong way round.
ChecksTableInverted(overwrite) == UseCache /\ overwrite

\* Variant: the overwrite flag not consulted.
ChecksTableIgnoresOverwrite(overwrite) == UseCache

ChecksTable(overwrite) == UseCache /\ ~overwrite

\* The guard in front of the map assignment.
StoresInTable == UseCache

\* Another goroutine is inside the map assignment (between the begin and the
\* end of fc.files[key] = file).
Racing(p) == \E q \in Procs \ {p} : pc[q] = "nd_storing"

\* What an unlocked lookup of key can yield: the table's entry, or, when it
\* races with a map write, possibly a miss.
TableViews(p, key) == {Lookup(key)} \cup (IF Racing(p) THEN {Nil} ELSE {})

\* ----------------------------------------------------------------- calls
IdleFrame ==
    [op |-> "none", key |-> NoKey, path |-> NoKey, data |-> NoData, overwrite |-> FALSE,
     stat |-> NoStat, file |-> Nil, ret |-> Nil, found |-> FALSE, err |-> ErrNone,
     didStat |-> FALSE, didRead |-> FALSE]

Resting(p) == pc[p] \in {"idle", "done"}

Quiescent == \A p \in Procs : Resting(p)

\* Goroutines are interchangeable: they are numbered in the order of their
\* first call.
CanCall(p) ==
    /\ ~fatal /\ Resting(p) /\ ncalls < MaxCalls
    /\ \A q \in Procs : q < p => pc[q] # "idle"

Return(p, ret, found, err) ==
    /\ pc' = [pc EXCEPT ![p] = "done"]
    /\ frame' = [frame EXCEPT ![p].ret = ret, ![p].found = found, ![p].err = err,
                              ![p].stat = NoStat, ![p].file = Nil]

CallQueryKey(p, key) ==
    /\ CanCall(p)
    /\ pc' = [pc EXCEPT ![p] = "qk"]
    /\ frame' = [frame EXCEPT ![p] = [IdleFrame EXCEPT !.op = "QueryKey", !.key = key]]
    /\ ncalls' = ncalls + 1
    /\ UNCHANGED <<useCache, files, mu, heap, disk, fatal>>
    /\ UNCHANGED nonCacheVars

CallLoadFromPath(p, key, path, overwrite) ==
    /\ CanCall(p)
    /\ pc' = [pc EXCEPT ![p] = "lp_check"]
    /\ frame' = [frame EXCEPT ![p] = [IdleFrame EXCEPT !.op = "LoadFromPath", !.key = key,
                                          !.path = path, !.overwrite = overwrite]]
    /\ ncalls' = ncalls + 1
    /\ UNCHANGED <<useCache, files, mu, heap, disk, fatal>>
    /\ UNCHANGED nonCacheVars

CallNewFromData(p, key, data, overwrite) ==
    /\ CanCall(p)
    /\ pc' = [pc EXCEPT ![p] = "nd_check"]
    /\ frame' = [frame EXCEPT ![p] = [IdleFrame EXCEPT !.op = "NewFromData", !.key = key,
                                          !.data = data, !.overwrite = overwrite]]
    /\ ncalls' = ncalls + 1
    /\ UNCHANGED <<useCache, files, mu, heap, disk, fatal>>
    /\ UNCHANGED nonCacheVars

\* -------------------------------------------------------------- QueryKey
QueryKey(p) ==
    /\ ~fatal /\ pc[p] = "qk"
    /\ IF ~UseCache
       THEN Return(p, Nil, FALSE, ErrNone)
       ELSE \E v \in TableViews(p, frame[p].key) : Return(p, v, v # Nil, ErrNone)
    /\ UNCHANGED <<useCache, files, mu, heap, disk, fatal, ncalls>>
    /\ UNCHANGED nonCacheVars

\* ---------------------------------------------------------- LoadFromPath
LoadFromPathCheck(p) ==
    /\ ~fatal /\ pc[p] = "lp_check"
    /\ IF ChecksTable(frame[p].overwrite)
       THEN \E v \in TableViews(p, frame[p].key) :
                IF v # Nil
                THEN Return(p, v, TRUE, ErrNone)
                ELSE pc' = [pc EXCEPT ![p] = "lp_stat"] /\ UNCHANGED frame
       ELSE pc' = [pc EXCEPT ![p] = "lp_stat"] /\ UNCHANGED frame
    /\ UNCHANGED <<useCache, files, mu, heap, disk, fatal, ncalls>>
    /\ UNCHANGED nonCacheVars

LoadFromPathStat(p) ==
    /\ ~fatal /\ pc[p] = "lp_stat"
    /\ IF StatFails(frame[p].path)
       THEN /\ pc' = [pc EXCEPT ![p] = "done"]
            /\ frame' = [frame EXCEPT ![p].didStat = TRUE, ![p].err = ErrStat]
       ELSE /\ pc' = [pc EXCEPT ![p] = "lp_read"]
            /\ frame' = [frame EXCEPT ![p].didStat = TRUE,
                                      ![p].stat = StatOf(OsStat(frame[p].path))]
    /\ UNCHANGED <<useCache, files, mu, heap, disk, fatal, ncalls>>
    /\ UNCHANGED nonCacheVars

LoadFromPathRead(p) ==
    /\ ~fatal /\ pc[p] = "lp_read"
    /\ LET target == frame[p].path IN
       IF ReadFails(target)
       THEN /\ pc' = [pc EXCEPT ![p] = "done"]
            /\ frame' = [frame EXCEPT ![p].didRead = TRUE, ![p].err = ErrRead,
                                      ![p].stat = NoStat]
       ELSE /\ pc' = [pc EXCEPT ![p] = "nd_check"]
            /\ frame' = [frame EXCEPT ![p].didRead = TRUE, ![p].data = OsStat(target)]
    /\ UNCHANGED <<useCache, files, mu, heap, disk, fatal, ncalls>>
    /\ UNCHANGED nonCacheVars

LoadFromPathSetStat(p) ==
    /\ ~fatal /\ pc[p] = "lp_setstat"
    /\ heap' = [heap EXCEPT ![frame[p].file].Stat = frame[p].stat]
    /\ Return(p, frame[p].file, TRUE, ErrNone)
    /\ UNCHANGED <<useCache, files, mu, disk, fatal, ncalls>>
    /\ UNCHANGED nonCacheVars

\* ----------------------------------------------------------- NewFromData
\* The key-present check and, when it passes, the allocation of the record.
NewFromDataCheck(p) ==
    /\ ~fatal /\ pc[p] = "nd_check"
    /\ \E v \in (IF ChecksTable(frame[p].overwrite)
                 THEN TableViews(p, frame[p].key) ELSE {Nil}) :
          IF v # Nil
          THEN /\ pc' = [pc EXCEPT ![p] = "done"]
               /\ frame' = [frame EXCEPT ![p].err = ErrKeyInUse, ![p].stat = NoStat,
                                         ![p].data = IF frame[p].op = "LoadFromPath"
                                                     THEN NoData ELSE frame[p].data]
               /\ UNCHANGED heap
          ELSE /\ heap' = Append(heap, NewLoadedFile(frame[p].key, frame[p].data))
               /\ frame' = [frame EXCEPT ![p].file = Len(heap) + 1]
               /\ pc' = [pc EXCEPT ![p] = "nd_lock"]
    /\ UNCHANGED <<useCache, files, mu, disk, fatal, ncalls>>
    /\ UNCHANGED nonCacheVars

\* Lock, and the map assignment begins (it is skipped in bypass mode).
NewFromDataLock(p) ==
    /\ ~fatal /\ pc[p] = "nd_lock"
    /\ mu = Nil
    /\ mu' = p
    /\ pc' = [pc EXCEPT ![p] = IF StoresInTable THEN "nd_storing" ELSE "nd_unlock"]
    /\ UNCHANGED <<useCache, files, heap, disk, frame, fatal, ncalls>>
    /\ UNCHANGED nonCacheVars

\* The map assignment ends: the table maps key to the new record.
NewFromDataStored(p) ==
    /\ ~fatal /\ pc[p] = "nd_storing"
    /\ files' = [k \in DOMAIN files \cup {frame[p].key} |->
                    IF k = frame[p].key THEN frame[p].file ELSE files[k]]
    /\ pc' = [pc EXCEPT ![p] = "nd_unlock"]
    /\ UNCHANGED <<useCache, mu, heap, disk, frame, fatal, ncalls>>
    /\ UNCHANGED nonCacheVars

\* The deferred Unlock, and the return to the caller.
NewFromDataUnlock(p) ==
    /\ ~fatal /\ pc[p] = "nd_unlock"
    /\ mu' = Nil
    /\ IF frame[p].op = "LoadFromPath"
       THEN pc' = [pc EXCEPT ![p] = "lp_setstat"] /\ UNCHANGED frame
       ELSE Return(p, frame[p].file, TRUE, ErrNone)
    /\ UNCHANGED <<useCache, files, heap, disk, fatal, ncalls>>
    /\ UNCHANGED nonCacheVars

\* ------------------------------------------------------------- data race
\* An unlocked table lookup while another goroutine is inside the map
\* assignment: the runtime may detect it and abort the process.
AtTableRead(p) ==
    \/ pc[p] = "qk" /\ UseCache
    \/ pc[p] \in {"lp_check", "nd_check"} /\ ChecksTable(frame[p].overwrite)

FatalMapRace(p) ==
    /\ ~fatal /\ AtTableRead(p) /\ Racing(p)
    /\ fatal' = TRUE
    /\ UNCHANGED <<useCache, files, mu, heap, disk, pc, frame, ncalls>>
    /\ UNCHANGED nonCacheVars

\* ----------------------------------------------------------- environment
\* Something outside the cache rewrites, removes or protects a file.
WriteFile(path, state) ==
    /\ ~fatal /\ disk[path] # state
    /\ disk' = [disk EXCEPT ![path] = state]
    /\ UNCHANGED <<useCache, files, mu, heap, pc, frame, fatal, ncalls>>
    /\ UNCHANGED nonCacheVars

\* ------------------------------------------------------------ Lines()
\* bufio.ScanLines drops one trailing carriage return from a token.
DropCR(token) ==
    IF Len(token) > 0 /\ token[Len(token)] = CR
    THEN SubSeq(token, 1, Len(token) - 1)
    ELSE token

\* Variant: the end of the input always closes a line, so that data ending
\* in a newline gets one more, empty, line.
AtEOFExtraLine(cur, acc) == Append(acc, DropCR(cur))

\* The end of the input: what is left unterminated is the last line, and
\* nothing left is no line.
AtEOF(cur, acc) == IF cur = <<>> THEN acc ELSE Append(acc, DropCR(cur))

\* The loop of Lines(): scanner.Scan() run over data from byte i on, cur
\* being the bytes buffered since the last newline and acc the lines
\* appended so far.  A buffer that fills up before a newline or the end of
\* the input ends the scan with an error, after the lines before it.
RECURSIVE ScanFrom(_, _, _, _)
ScanFrom(data, i, cur, acc) ==
    IF Len(cur) >= MaxTokenSize THEN [lines |-> acc, err |-> ErrScan]
    ELSE IF i > Len(data) THEN [lines |-> AtEOF(cur, acc), err |-> ErrNone]
    ELSE IF data[i] = LF THEN ScanFrom(data, i + 1, <<>>, Append(acc, DropCR(cur)))
    ELSE ScanFrom(data, i + 1, Append(cur, data[i]), acc)

Scan(data) == ScanFrom(data, 1, <<>>, NoLines)

\* Variant: the lines are stored in the record before the scanner's error
\* is looked at.
MemoizedEvenOnError(old, scanned) == scanned.lines

\* What a scan leaves in lf.lines.
Memoized(old, scanned) == IF scanned.err # ErrNone THEN old ELSE scanned.lines

IdleLinesCall == [n |-> 0, scans |-> 0, oks |-> 0, ret |-> NoLines, err |-> ErrNone]

\* lf.Lines(), a whole call.
Lines ==
    /\ lcall.n < MaxLinesCalls
    /\ IF loadedFile.lines # NoLines
       THEN /\ lcall' = [lcall EXCEPT !.n = @ + 1, !.oks = @ + 1,
                                      !.ret = loadedFile.lines, !.err = ErrNone]
            /\ UNCHANGED loadedFile
       ELSE LET scanned == Scan(loadedFile.Data) IN
            /\ loadedFile' = [loadedFile EXCEPT !.lines = Memoized(@, scanned)]
            /\ lcall' = [n     |-> lcall.n + 1,
                         scans |-> lcall.scans + 1,
                         oks   |-> IF scanned.err = ErrNone THEN lcall.oks + 1 ELSE lcall.oks,
                         ret   |-> IF scanned.err = ErrNone THEN loadedFile'.lines ELSE NoLines,
                         err   |-> scanned.err]
    /\ UNCHANGED nonLinesVars

ParkedLines == loadedFile = NewLoadedFile(NoKey, <<>>) /\ lcall = IdleLinesCall

\* -------------------------------------------------------- test detection
NewOnce == [done |-> FALSE, m |-> Nil]

IdleInitFrame == [api |-> "none", i |-> 0, test |-> FALSE, ret |-> FALSE, cache |-> Nil]

InitResting(p) == ipc[p] \in {"idle", "done"}

\* Goroutines are interchangeable: they are numbered in the order of their
\* first call.
InitCanCall(p) ==
    /\ InitResting(p) /\ icalls < MaxCalls
    /\ \A q \in Procs : q < p => ipc[q] # "idle"

Goto(p, label) == ipc' = [ipc EXCEPT ![p] = label]

\* Variant: any value of BAZEL_TEST counts, not only "1".
IsSet(value) == value # ""

\* os.Getenv("BAZEL_TEST") == "1"
IsOne(value) == value = "1"

\* Variant: the once is forgotten, so that every call evaluates again.
BazelCheckedNever == FALSE

\* bazelCheckOnce has run its function.
BazelChecked == bazelCheckOnce.done

\* Variant: the cache counts as ready as soon as the pointer is set.
CacheReadyByPointer == gFileCache # Nil

\* once has run its function.
CacheReady == once.done

\* A goroutine calls RunningAsBazelTest, RunningAsTest or GlobalFileCache.
CallRunningAsBazelTest(p) ==
    /\ InitCanCall(p)
    /\ Goto(p, "b_once")
    /\ iframe' = [iframe EXCEPT ![p] = [IdleInitFrame EXCEPT !.api = "RunningAsBazelTest"]]
    /\ icalls' = icalls + 1
    /\ UNCHANGED <<useCache, files, env, testingFlag, bazelCheckOnce, gRunningAsBazelTest,
                   once, gFileCache>>
    /\ UNCHANGED nonDetectVars

CallRunningAsTest(p) ==
    /\ InitCanCall(p)
    /\ Goto(p, "b_once")
    /\ iframe' = [iframe EXCEPT ![p] = [IdleInitFrame EXCEPT !.api = "RunningAsTest"]]
    /\ icalls' = icalls + 1
    /\ UNCHANGED <<useCache, files, env, testingFlag, bazelCheckOnce, gRunningAsBazelTest,
                   once, gFileCache>>
    /\ UNCHANGED nonDetectVars

CallGlobalFileCache(p) ==
    /\ InitCanCall(p)
    /\ Goto(p, "g_once")
    /\ iframe' = [iframe EXCEPT ![p] = [IdleInitFrame EXCEPT !.api = "GlobalFileCache"]]
    /\ icalls' = icalls + 1
    /\ UNCHANGED <<useCache, files, env, testingFlag, bazelCheckOnce, gRunningAsBazelTest,
                   once, gFileCache>>
    /\ UNCHANGED nonDetectVars

\* bazelCheckOnce.Do: the function has run already, or the slow path is taken.
BazelOnceDo(p) ==
    /\ ipc[p] = "b_once"
    /\ Goto(p, IF BazelChecked THEN "b_ret" ELSE "b_lock")
    /\ UNCHANGED <<useCache, files, env, testingFlag, bazelCheckOnce, gRunningAsBazelTest,
                   once, gFileCache, iframe, icalls>>
    /\ UNCHANGED nonDetectVars

\* The slow path takes the once's mutex and looks again.
BazelOnceLock(p) ==
    /\ ipc[p] = "b_lock" /\ bazelCheckOnce.m = Nil
    /\ bazelCheckOnce' = [bazelCheckOnce EXCEPT !.m = p]
    /\ Goto(p, IF BazelChecked THEN "b_unlock" ELSE "b_env")
    /\ UNCHANGED <<useCache, files, env, testingFlag, gRunningAsBazelTest,
                   once, gFileCache, iframe, icalls>>
    /\ UNCHANGED nonDetectVars

\* os.Getenv("BAZEL_TEST") == "1"
BazelTestEnv(p) ==
    /\ ipc[p] = "b_env"
    /\ IF IsOne(env[BazelTestVar])
       THEN gRunningAsBazelTest' = TRUE /\ Goto(p, "b_unlock") /\ UNCHANGED iframe
       ELSE /\ UNCHANGED gRunningAsBazelTest
            /\ Goto(p, "b_marker")
            /\ iframe' = [iframe EXCEPT ![p].i = 1]
    /\ UNCHANGED <<useCache, files, env, testingFlag, bazelCheckOnce, once, gFileCache, icalls>>
    /\ UNCHANGED nonDetectVars

\* One round of the loop over the Bazel marker variables.
BazelMarkerEnv(p) ==
    /\ ipc[p] = "b_marker"
    /\ LET i == iframe[p].i IN
       IF env[BazelMarkers[i]] = ""
       THEN /\ Goto(p, "b_unlock")
            /\ iframe' = [iframe EXCEPT ![p].i = 0]
            /\ UNCHANGED gRunningAsBazelTest
       ELSE IF i < Len(BazelMarkers)
       THEN /\ iframe' = [iframe EXCEPT ![p].i = i + 1]
            /\ UNCHANGED <<gRunningAsBazelTest, ipc>>
       ELSE /\ gRunningAsBazelTest' = TRUE
            /\ Goto(p, "b_unlock")
            /\ iframe' = [iframe EXCEPT ![p].i = 0]
    /\ UNCHANGED <<useCache, files, env, testingFlag, bazelCheckOnce, once, gFileCache, icalls>>
    /\ UNCHANGED nonDetectVars

\* The slow path ends: the once is marked done and its mutex released.
BazelOnceUnlock(p) ==
    /\ ipc[p] = "b_unlock"
    /\ bazelCheckOnce' = [done |-> TRUE, m |-> Nil]
    /\ Goto(p, "b_ret")
    /\ UNCHANGED <<useCache, files, env, testingFlag, gRunningAsBazelTest,
                   once, gFileCache, iframe, icalls>>
    /\ UNCHANGED nonDetectVars

\* return gRunningAsBazelTest, to the caller of RunningAsBazelTest.
BazelReturn(p) ==
    /\ ipc[p] = "b_ret" /\ iframe[p].api = "RunningAsBazelTest"
    /\ Goto(p, "done")
    /\ iframe' = [iframe EXCEPT ![p].ret = gRunningAsBazelTest]
    /\ UNCHANGED <<useCache, files, env, testingFlag, bazelCheckOnce, gRunningAsBazelTest,
                   once, gFileCache, icalls>>
    /\ UNCHANGED nonDetectVars

\* RunningAsTest, once its call of RunningAsBazelTest is over: under Bazel,
\* or a Go test binary.  It returns to its caller or to GlobalFileCache.
RunningAsTest(p) ==
    /\ ipc[p] = "b_ret" /\ iframe[p].api # "RunningAsBazelTest"
    /\ LET test == gRunningAsBazelTest \/ testingFlag IN
       IF iframe[p].api = "RunningAsTest"
       THEN /\ Goto(p, "done")
            /\ iframe' = [iframe EXCEPT ![p].ret = test]
       ELSE /\ Goto(p, "g_set")
            /\ iframe' = [iframe EXCEPT ![p].test = test]
    /\ UNCHANGED <<useCache, files, env, testingFlag, bazelCheckOnce, gRunningAsBazelTest,
                   once, gFileCache, icalls>>
    /\ UNCHANGED nonDetectVars

\* -------------------------------------------------------- GlobalFileCache
\* once.Do: the function has run already, or the slow path is taken.
CacheOnceDo(p) ==
    /\ ipc[p] = "g_once"
    /\ Goto(p, IF CacheReady THEN "g_ret" ELSE "g_lock")
    /\ UNCHANGED <<useCache, files, env, testingFlag, bazelCheckOnce, gRunningAsBazelTest,
                   once, gFileCache, iframe, icalls>>
    /\ UNCHANGED nonDetectVars

CacheOnceLock(p) ==
    /\ ipc[p] = "g_lock" /\ once.m = Nil
    /\ once' = [once EXCEPT !.m = p]
    /\ Goto(p, IF CacheReady THEN "g_unlock" ELSE "g_new")
    /\ UNCHANGED <<useCache, files, env, testingFlag, bazelCheckOnce, gRunningAsBazelTest,
                   gFileCache, iframe, icalls>>
    /\ UNCHANGED nonDetectVars

\* gFileCache = &fileCache{files: map[string]*LoadedFile{}, useCache: true},
\* and then the call of RunningAsTest.
CacheNew(p) ==
    /\ ipc[p] = "g_new"
    /\ gFileCache' = gFileCache + 1
    /\ files' = <<>>
    /\ useCache' = TRUE
    /\ Goto(p, "b_once")
    /\ UNCHANGED <<env, testingFlag, bazelCheckOnce, gRunningAsBazelTest, once, iframe, icalls>>
    /\ UNCHANGED nonDetectVars

\* if RunningAsTest() { gFileCache.useCache = false }
CacheSetBypass(p) ==
    /\ ipc[p] = "g_set"
    /\ useCache' = IF iframe[p].test THEN FALSE ELSE useCache
    /\ Goto(p, "g_unlock")
    /\ iframe' = [iframe EXCEPT ![p].test = FALSE]
    /\ UNCHANGED <<files, env, testingFlag, bazelCheckOnce, gRunningAsBazelTest,
                   once, gFileCache, icalls>>
    /\ UNCHANGED nonDetectVars

CacheOnceUnlock(p) ==
    /\ ipc[p] = "g_unlock"
    /\ once' = [done |-> TRUE, m |-> Nil]
    /\ Goto(p, "g_ret")
    /\ UNCHANGED <<useCache, files, env, testingFlag, bazelCheckOnce, gRunningAsBazelTest,
                   gFileCache, iframe, icalls>>
    /\ UNCHANGED nonDetectVars

\* return gFileCache
CacheReturn(p) ==
    /\ ipc[p] = "g_ret"
    /\ Goto(p, "done")
    /\ iframe' = [iframe EXCEPT ![p].cache = gFileCache]
    /\ UNCHANGED <<useCache, files, env, testingFlag, bazelCheckOnce, gRunningAsBazelTest,
                   once, gFileCache, icalls>>
    /\ UNCHANGED nonDetectVars

\* Something in the process sets or clears an environment variable, after
\* test detection has looked at the environment.
SetEnv(v, value) ==
    /\ bazelCheckOnce.done
    /\ env[v] # value
    /\ env' = [env EXCEPT ![v] = value]
    /\ UNCHANGED <<useCache, files, testingFlag, bazelCheckOnce, gRunningAsBazelTest,
                   once, gFileCache, ipc, iframe, icalls>>
    /\ UNCHANGED nonDetectVars

ParkedDetect ==
    /\ env = [v \in EnvVars |-> ""]
    /\ testingFlag = FALSE
    /\ bazelCheckOnce = NewOnce
    /\ gRunningAsBazelTest = FALSE
    /\ once = NewOnce
    /\ gFileCache = Nil
    /\ ipc = [p \in Procs |-> "idle"]
    /\ iframe = [p \in Procs |-> IdleInitFrame]
    /\ icalls = 0

\* ------------------------------------------------------------ RunfilePath
\* files.ToUnixPath: every backslash becomes a slash.
ToUnixPath(path) ==
    [i \in 1..Len(path) |-> IF path[i] = Backslash THEN Slash ELSE path[i]]

\* strings.HasSuffix
HasSuffix(str, suffix) ==
    /\ Len(suffix) <= Len(str)
    /\ SubSeq(str, Len(str) - Len(suffix) + 1, Len(str)) = suffix

\* The loop over the runfiles, from entry i on: the Path of the first entry
\* that ends in path, or no path.
RECURSIVE FirstRunfile(_, _, _)
FirstRunfile(list, i, path) ==
    IF i > Len(list) THEN NoPath
    ELSE IF HasSuffix(ToUnixPath(list[i].Path), path) THEN list[i].Path
    ELSE FirstRunfile(list, i + 1, path)

\* Outside Bazel: the path itself, if files.StatFile finds it.
PlainLookup(path, stat) ==
    IF stat # StatFound
    THEN [out |-> NoPath, err |-> ErrStatFile]
    ELSE [out |-> path, err |-> ErrNone]

\* Variant: with no runfile matching, the path is looked up in the filesystem.
BazelFallsBack(path, stat) == PlainLookup(path, stat)

\* Under Bazel with no runfile matching: "cannot find".
BazelNoMatch(path, stat) == [out |-> NoPath, err |-> ErrCannotFind]

\* Under Bazel: the runfiles are listed and searched.
BazelLookup(path, stat) ==
    IF runfiles.err THEN [out |-> NoPath, err |-> ErrListing]
    ELSE LET found == IF Len(runfiles.list) > 0
                      THEN FirstRunfile(runfiles.list, 1, ToUnixPath(path))
                      ELSE NoPath
         IN  IF found # NoPath
             THEN [out |-> found, err |-> ErrNone]
             ELSE BazelNoMatch(path, stat)

\* Test detection has answered before: its memoized answers.
IsBazelTest == gRunningAsBazelTest

IsTest == gRunningAsBazelTest \/ testingFlag

IdleRunfileCall ==
    [called |-> FALSE, path |-> NoPath, stat |-> StatNotFound, out |-> NoPath, err |-> ErrNone]

\* RunfilePath(path), a whole call, stat being what the filesystem holds at
\* path.
RunfilePath(path, stat) ==
    /\ LET res == IF ~IsTest THEN [out |-> NoPath, err |-> ErrNotTest]
                  ELSE IF IsBazelTest THEN BazelLookup(path, stat)
                  ELSE PlainLookup(path, stat)
       IN  rfcall' = [called |-> TRUE, path |-> path, stat |-> stat,
                      out |-> res.out, err |-> res.err]
    /\ UNCHANGED runfiles
    /\ UNCHANGED nonRunfileVars

ParkedRunfile == runfiles = [list |-> <<>>, err |-> FALSE] /\ rfcall = IdleRunfileCall

\* ------------------------------------- the cache with DisallowKeyCollision
IdleRevCall ==
    [n |-> 0, op |-> "none", key |-> NoKey, data |-> NoData, overwrite |-> FALSE,
     ret |-> Nil, found |-> FALSE, err |-> ErrNone]

RevPresent(key) == key \in DOMAIN rev.files

RevCanCall == revcall.n < MaxCalls

\* fc.QueryKey(key)
RevQueryKey(key) ==
    /\ RevCanCall
    /\ revcall' = [IdleRevCall EXCEPT
                     !.n = revcall.n + 1, !.op = "QueryKey", !.key = key,
                     !.found = RevPresent(key),
                     !.ret = IF RevPresent(key) THEN rev.files[key] ELSE Nil]
    /\ UNCHANGED rev
    /\ UNCHANGED nonRevVars

\* What fc.NewFromData(key, data, overwrite) does to the cache, and returns.
RevNewFromDataResult(key, data, overwrite) ==
    IF ~rev.DisallowKeyCollision /\ ~overwrite
    THEN [files |-> rev.files, ret |-> Nil, err |-> ErrKeyInUse]
    ELSE LET file == [Key |-> key, Data |-> data] IN
         [files |-> [k \in DOMAIN rev.files \cup {key} |->
                        IF k = key THEN file ELSE rev.files[k]],
          ret |-> file, err |-> ErrNone]

\* fc.NewFromData(key, data, overwrite)
RevNewFromData(key, data, overwrite) ==
    /\ RevCanCall
    /\ LET res == RevNewFromDataResult(key, data, overwrite) IN
       /\ rev' = [rev EXCEPT !.files = res.files]
       /\ revcall' = [IdleRevCall EXCEPT
                        !.n = revcall.n + 1, !.op = "NewFromData", !.key = key,
                        !.data = data, !.overwrite = overwrite,
                        !.ret = res.ret, !.err = res.err]
    /\ UNCHANGED nonRevVars

\* fc.LoadFromPath(key, path, overwrite)
RevLoadFromPath(key, path, overwrite) ==
    /\ RevCanCall
    /\ LET res == IF RevPresent(key)
                  THEN [files |-> rev.files, ret |-> rev.files[key], err |-> ErrNone]
                  ELSE IF ReadFails(path)
                  THEN [files |-> rev.files, ret |-> Nil, err |-> ErrRead]
                  ELSE RevNewFromDataResult(key, OsStat(path), overwrite)
       IN
       /\ rev' = [rev EXCEPT !.files = res.files]
       /\ revcall' = [IdleRevCall EXCEPT
                        !.n = revcall.n + 1, !.op = "LoadFromPath", !.key = key,
                        !.overwrite = overwrite, !.ret = res.ret, !.err = res.err]
    /\ UNCHANGED nonRevVars

\* A client sets the exported field DisallowKeyCollision.
SetDisallowKeyCollision(value) ==
    /\ rev.DisallowKeyCollision # value
    /\ rev' = [rev EXCEPT !.DisallowKeyCollision = value]
    /\ UNCHANGED revcall
    /\ UNCHANGED nonRevVars

\* GlobalFileCache of that revision: an empty table, DisallowKeyCollision false.
NewRevCache == [files |-> <<>>, DisallowKeyCollision |-> FALSE]

ParkedRev == rev = NewRevCache /\ revcall = IdleRevCall

\* --------------------------------------------------------- specification
\* GlobalFileCache: an empty table; useCache is false under a test.  The
\* file may be missing, unreadable or readable.
Init ==
    /\ useCache \in BOOLEAN
    /\ files = <<>>
    /\ mu = Nil
    /\ heap = <<>>
    /\ disk \in [Paths -> FileStates]
    /\ pc = [p \in Procs |-> "idle"]
    /\ frame = [p \in Procs |-> IdleFrame]
    /\ fatal = FALSE
    /\ ncalls = 0
    /\ ParkedLines
    /\ ParkedDetect
    /\ ParkedRunfile
    /\ ParkedRev

Step(p) ==
    \/ QueryKey(p)
    \/ LoadFromPathCheck(p)
    \/ LoadFromPathStat(p)
    \/ LoadFromPathRead(p)
    \/ LoadFromPathSetStat(p)
    \/ NewFromDataCheck(p)
    \/ NewFromDataLock(p)
    \/ NewFromDataStored(p)
    \/ NewFromDataUnlock(p)

Call(p) ==
    \/ \E k \in Keys : CallQueryKey(p, k)
    \/ \E k \in Keys, path \in Paths, ow \in BOOLEAN : CallLoadFromPath(p, k, path, ow)
    \/ \E k \in Keys, d \in Data, ow \in BOOLEAN : CallNewFromData(p, k, d, ow)

\* Goroutines call and run concurrently.
Next ==
    \/ \E p \in Procs : Call(p)
    \/ \E p \in Procs : Step(p)
    \/ \E p \in Procs : FatalMapRace(p)

Spec == Init /\ [][Next]_vars

\* One call at a time: a call starts, and the filesystem changes, only when
\* no other call is running.
SeqCall(p) == Quiescent /\ Call(p)

SeqWriteFile(path, state) == Quiescent /\ WriteFile(path, state)

NextSeq ==
    \/ \E p \in Procs : SeqCall(p)
    \/ \E p \in Procs : Step(p)
    \/ \E path \in Paths, s \in FileStates : SeqWriteFile(path, s)

SpecSeq == Init /\ [][NextSeq]_vars

\* The cache as the other specifications hold it: empty and untouched.
ParkedCache ==
    /\ useCache = TRUE
    /\ files = <<>>
    /\ mu = Nil
    /\ heap = <<>>
    /\ disk = [path \in Paths |-> Absent]
    /\ pc = [p \in Procs |-> "idle"]
    /\ frame = [p \in Procs |-> IdleFrame]
    /\ fatal = FALSE
    /\ ncalls = 0

\* Lines() called again and again on one record, whatever its Data.
InitLines ==
    /\ ParkedCache
    /\ loadedFile \in {NewLoadedFile("k", d) : d \in ByteSeqs}
    /\ lcall = IdleLinesCall
    /\ ParkedDetect
    /\ ParkedRunfile
    /\ ParkedRev

NextLines == Lines

SpecLines == InitLines /\ [][NextLines]_vars

\* The process starts: nothing has been detected or constructed, whatever
\* the environment and the kind of binary.
InitInit ==
    /\ ParkedCache
    /\ ParkedLines
    /\ ParkedRunfile
    /\ ParkedRev
    /\ env \in Envs
    /\ testingFlag \in BOOLEAN
    /\ bazelCheckOnce = NewOnce
    /\ gRunningAsBazelTest = FALSE
    /\ once = NewOnce
    /\ gFileCache = Nil
    /\ ipc = [p \in Procs |-> "idle"]
    /\ iframe = [p \in Procs |-> IdleInitFrame]
    /\ icalls = 0

InitCall(p) ==
    \/ CallRunningAsBazelTest(p)
    \/ CallRunningAsTest(p)
    \/ CallGlobalFileCache(p)

InitStep(p) ==
    \/ BazelOnceDo(p)
    \/ BazelOnceLock(p)
    \/ BazelTestEnv(p)
    \/ BazelMarkerEnv(p)
    \/ BazelOnceUnlock(p)
    \/ BazelReturn(p)
    \/ RunningAsTest(p)
    \/ CacheOnceDo(p)
    \/ CacheOnceLock(p)
    \/ CacheNew(p)
    \/ CacheSetBypass(p)
    \/ CacheOnceUnlock(p)
    \/ CacheReturn(p)

NextInit ==
    \/ \E p \in Procs : InitCall(p)
    \/ \E p \in Procs : InitStep(p)
    \/ \E v \in EnvVars : \E value \in EnvValues(v) : SetEnv(v, value)

SpecInit == InitInit /\ [][NextInit]_vars

\* RunfilePath called in a process whose test detection has answered,
\* whatever it answered and whatever Bazel lists.
InitRunfile ==
    /\ ParkedCache
    /\ ParkedLines
    /\ ParkedRev
    /\ env = [v \in EnvVars |-> ""]
    /\ testingFlag \in BOOLEAN
    /\ bazelCheckOnce = [done |-> TRUE, m |-> Nil]
    /\ gRunningAsBazelTest \in BOOLEAN
    /\ once = NewOnce
    /\ gFileCache = Nil
    /\ ipc = [p \in Procs |-> "idle"]
    /\ iframe = [p \in Procs |-> IdleInitFrame]
    /\ icalls = 0
    /\ runfiles \in [list : RunfileLists, err : BOOLEAN]
    /\ rfcall = IdleRunfileCall

NextRunfile == \E path \in RunfileNames, stat \in StatOutcomes : RunfilePath(path, stat)

SpecRunfile == InitRunfile /\ [][NextRunfile]_vars

\* The revision with DisallowKeyCollision, one call at a time, over a
\* filesystem that does not change.
InitRev ==
    /\ useCache = TRUE
    /\ files = <<>>
    /\ mu = Nil
    /\ heap = <<>>
    /\ disk \in [Paths -> FileStates]
    /\ pc = [p \in Procs |-> "idle"]
    /\ frame = [p \in Procs |-> IdleFrame]
    /\ fatal = FALSE
    /\ ncalls = 0
    /\ ParkedLines
    /\ ParkedDetect
    /\ ParkedRunfile
    /\ rev = NewRevCache
    /\ revcall = IdleRevCall

NextRev ==
    \/ \E k \in Keys : RevQueryKey(k)
    \/ \E k \in Keys, d \in Data, ow \in BOOLEAN : RevNewFromData(k, d, ow)
    \/ \E k \in Keys, path \in Paths, ow \in BOOLEAN : RevLoadFromPath(k, path, ow)
    \/ \E v \in BOOLEAN : SetDisallowKeyCollision(v)

SpecRev == InitRev /\ [][NextRev]_vars

\* ================================================================ claims
Done(p) == pc[p] = "done"

Succeeded(p) == Done(p) /\ frame[p].err = ErrNone

\* Goroutine p takes the step at label l.
Steps(p, l) == pc[p] = l /\ pc'[p] # l

\* ---- C1 ----
\* The key-present check of LoadFromPath(k, path, false) on a present key.
C1_HitStep(p) ==
    (Steps(p, "lp_check") /\ useCache /\ ~frame[p].overwrite /\ Present(frame[p].key))
    => /\ pc'[p] = "done"
       /\ frame'[p].err = ErrNone
       /\ frame'[p].ret = files[frame[p].key]
       /\ ~frame'[p].didStat /\ ~frame'[p].didRead
       /\ files' = files /\ heap' = heap /\ disk' = disk

\* C1: with the cache in use, a LoadFromPath(k, path, overwrite=false) that
\* finds k in the table returns the record stored under k at once, without a
\* stat or a read of the filesystem, and changes neither the table nor any
\* record (so a second load of a key returns the first load's record).
C1_Idempotent == [][\A p \in Procs : C1_HitStep(p)]_vars

\* A load that read the file and a later load of the same key that did not,
\* both holding the same record.
C1_Witness ==
    \E p, q \in Procs :
        /\ p # q /\ useCache
        /\ Succeeded(p) /\ frame[p].op = "LoadFromPath" /\ frame[p].didRead
        /\ Succeeded(q) /\ frame[q].op = "LoadFromPath" /\ ~frame[q].overwrite
        /\ frame[q].key = frame[p].key
        /\ ~frame[q].didStat /\ ~frame[q].didRead
        /\ frame[q].ret = frame[p].ret /\ frame[q].ret # Nil

\* ---- C2 ----
\* The key-present check of NewFromData(k, other, false) on a present key.
C2_CollisionStep(p) ==
    (/\ Steps(p, "nd_check") /\ frame[p].op = "NewFromData"
     /\ useCache /\ ~frame[p].overwrite /\ Present(frame[p].key))
    => /\ pc'[p] = "done"
       /\ frame'[p].err = ErrKeyInUse
       /\ frame'[p].ret = Nil
       /\ files' = files /\ heap' = heap

\* C2: with the cache in use, NewFromData(k, other, overwrite=false) on a key
\* already in the table fails with key-in-use, returns no record, and leaves
\* the table and every record (so the first record's Data) unchanged.
C2_CollisionGuard == [][\A p \in Procs : C2_CollisionStep(p)]_vars

\* A refused second NewFromData whose data differs from the stored record's.
C2_Witness ==
    \E p \in Procs :
        /\ useCache /\ Done(p) /\ frame[p].op = "NewFromData" /\ ~frame[p].overwrite
        /\ frame[p].err = ErrKeyInUse /\ frame[p].ret = Nil
        /\ Present(frame[p].key)
        /\ heap[files[frame[p].key]].Data # frame[p].data
        /\ heap[files[frame[p].key]].FromFile = FALSE

\* ---- C3 ----
\* An overwriting NewFromData that has returned has succeeded, with a record
\* that holds its key and data.
C3_Succeeds ==
    \A p \in Procs :
        (Done(p) /\ frame[p].op = "NewFromData" /\ frame[p].overwrite)
        => /\ frame[p].err = ErrNone
           /\ frame[p].ret # Nil
           /\ heap[frame[p].ret].Key = frame[p].key
           /\ heap[frame[p].ret].Data = frame[p].data

\* Its map assignment touches the entry of its key only.
C3_StoreStep(p) ==
    (Steps(p, "nd_storing") /\ frame[p].overwrite)
    => /\ DOMAIN files' = DOMAIN files \cup {frame[p].key}
       /\ \A k \in DOMAIN files \ {frame[p].key} : files'[k] = files[k]

\* When it returns, the table maps its key to the record it returns.
C3_ReturnStep(p) ==
    (Steps(p, "nd_unlock") /\ frame[p].op = "NewFromData" /\ frame[p].overwrite /\ useCache)
    => /\ pc'[p] = "done"
       /\ Present(frame[p].key)
       /\ files[frame[p].key] = frame'[p].ret

\* QueryKey returns the table's entry for its key and changes nothing.
C3_QueryStep(p) ==
    (Steps(p, "qk") /\ useCache)
    => /\ pc'[p] = "done"
       /\ frame'[p].found = Present(frame[p].key)
       /\ frame'[p].ret = Lookup(frame[p].key)
       /\ files' = files /\ heap' = heap

\* C3: with the cache in use, NewFromData(k, data, overwrite=true) always
\* succeeds; when it returns, the table maps k to the returned record, whose
\* Data is data, and the entries of the other keys are as they were; and
\* QueryKey(k) returns the table's entry for k.
C3_Overwrite ==
    /\ []C3_Succeeds
    /\ [][\A p \in Procs : C3_StoreStep(p) /\ C3_ReturnStep(p) /\ C3_QueryStep(p)]_vars

\* Two overwriting NewFromData calls on one key with different data, then
\* the table holding the second one's record.
C3_Witness ==
    \E p, q \in Procs :
        /\ p # q /\ useCache
        /\ Succeeded(p) /\ frame[p].op = "NewFromData" /\ frame[p].overwrite
        /\ Succeeded(q) /\ frame[q].op = "NewFromData" /\ frame[q].overwrite
        /\ frame[p].key = frame[q].key /\ frame[p].data # frame[q].data
        /\ frame[p].ret < frame[q].ret
        /\ Lookup(frame[q].key) = frame[q].ret
        /\ heap[Lookup(frame[q].key)].Data = frame[q].data

\* ---- C4 ----
\* C4: a record returned by a LoadFromPath that read the file has FromFile
\* true and Path() equal to its key; a record created by NewFromData has
\* FromFile false and an empty Path().
C4_OriginFlag ==
    \A p \in Procs :
        /\ (Succeeded(p) /\ frame[p].op = "LoadFromPath" /\ frame[p].didRead)
           => /\ heap[frame[p].ret].FromFile
              /\ Path(heap[frame[p].ret]) = frame[p].key
        /\ (Succeeded(p) /\ frame[p].op = "NewFromData")
           => /\ ~heap[frame[p].ret].FromFile
              /\ Path(heap[frame[p].ret]) = NoKey

\* ---- C5 ----
\* C5: in bypass mode the table stays empty, NewFromData never fails with
\* key-in-use, and QueryKey finds nothing.
C5_Bypass ==
    ~useCache =>
        /\ files = <<>>
        /\ \A p \in Procs :
              Done(p) => /\ frame[p].err # ErrKeyInUse
                         /\ frame[p].op = "QueryKey" => (~frame[p].found /\ frame[p].ret = Nil)

\* In bypass mode: two successful non-overwriting NewFromData calls on one key.
C5_Witness ==
    \E p, q \in Procs :
        /\ p # q /\ ~useCache /\ files = <<>>
        /\ Succeeded(p) /\ frame[p].op = "NewFromData" /\ ~frame[p].overwrite
        /\ Succeeded(q) /\ frame[q].op = "NewFromData" /\ ~frame[q].overwrite
        /\ frame[p].key = frame[q].key
        /\ frame[p].ret # frame[q].ret

\* ---- C6 ----
\* In bypass mode a successful LoadFromPath has statted and read the file and
\* returns a record holding what it read.
C6_Reads ==
    \A p \in Procs :
        (Succeeded(p) /\ frame[p].op = "LoadFromPath" /\ ~useCache)
        => /\ frame[p].didStat /\ frame[p].didRead
           /\ frame[p].ret # Nil
           /\ heap[frame[p].ret].Data = frame[p].data

\* The record it returns is a new one, holding the file's current content.
C6_ReturnStep(p) ==
    (pc[p] # "done" /\ pc'[p] = "done" /\ frame[p].op = "LoadFromPath"
     /\ frame'[p].err = ErrNone /\ ~useCache)
    => /\ heap'[frame'[p].ret].Data = disk[frame[p].path]
       /\ \A q \in Procs \ {p} : frame[q].ret # frame'[p].ret
       /\ \A k \in DOMAIN files : files[k] # frame'[p].ret

\* C6: in bypass mode every successful LoadFromPath has statted and read the
\* file, and the record it returns is a new one (not in the table, not held
\* by another caller) whose Data is what the file holds when the call returns.
C6_Fresh == []C6_Reads /\ [][\A p \in Procs : C6_ReturnStep(p)]_vars

\* In bypass mode: two loads of the same key and path, the file rewritten in
\* between, the second record holding the new content.
C6_Witness ==
    \E p, q \in Procs :
        /\ p # q /\ ~useCache
        /\ Succeeded(p) /\ frame[p].op = "LoadFromPath"
        /\ Succeeded(q) /\ frame[q].op = "LoadFromPath"
        /\ frame[p].key = frame[q].key /\ frame[p].path = frame[q].path
        /\ frame[p].ret < frame[q].ret
        /\ heap[frame[p].ret].Data # heap[frame[q].ret].Data
        /\ heap[frame[q].ret].Data = disk[frame[q].path]

\* ---- C7 ----
\* The goroutines that have made a call.
Started == {p \in Procs : frame[p].op # "none"}

\* The only calls so far: one NewFromData per goroutine, on distinct keys.
C7_Scenario ==
    /\ useCache
    /\ ncalls = Cardinality(Started)
    /\ \A p \in Started : frame[p].op = "NewFromData"
    /\ \A p, q \in Started : p # q => frame[p].key # frame[q].key

\* C7: with the cache in use, when the only calls are concurrent NewFromData
\* calls on pairwise distinct fresh keys, no call is cut short, every call
\* that has returned succeeded, and once all have returned the table holds
\* exactly their keys, each mapped to the record its call returned.
C7_DistinctKeys ==
    C7_Scenario =>
        /\ ~fatal
        /\ \A p \in Started : Done(p) => Succeeded(p)
        /\ (\A p \in Started : Done(p)) =>
              /\ DOMAIN files = {frame[p].key : p \in Started}
              /\ \A p \in Started : files[frame[p].key] = frame[p].ret

\* ---- C8 ----
\* Two NewFromData(k, _, false) calls on the same key never both succeed.
C8_OneWinner ==
    \A p, q \in Procs :
        (/\ p # q /\ useCache
         /\ Succeeded(p) /\ frame[p].op = "NewFromData" /\ ~frame[p].overwrite
         /\ Succeeded(q) /\ frame[q].op = "NewFromData" /\ ~frame[q].overwrite)
        => frame[p].key # frame[q].key

\* A map assignment that re-binds a key belongs to an overwriting call.
C8_RebindStep(p) ==
    (Steps(p, "nd_storing") /\ Present(frame[p].key)
     /\ files'[frame[p].key] # files[frame[p].key])
    => frame[p].overwrite

\* C8: with the cache in use, two NewFromData(k, _, false) calls on the same k
\* never both succeed, and a key the table already maps is mapped to another
\* record only by a call that passed overwrite=true.
C8_BoundOnce == []C8_OneWinner /\ [][\A p \in Procs : C8_RebindStep(p)]_vars

\* ---- C9 ----
\* A table lookup or the end of a map assignment by p: p holds the mutex.
C9_AccessStep(p) ==
    (\/ AtTableRead(p) /\ pc'[p] # pc[p]
     \/ Steps(p, "nd_storing"))
    => mu = p

\* C9: every step that looks a key up in the table, and every step of the map
\* assignment, is taken by a goroutine that holds the cache mutex.
C9_AllUnderMutex == [][\A p \in Procs : C9_AccessStep(p)]_vars

\* ---- C10 ----
\* C10: with the cache in use, a record that QueryKey or a cache-hit
\* LoadFromPath has returned, and that a LoadFromPath call created, carries
\* its Stat, also while that LoadFromPath call has not returned yet.
C10_NoPartialRecord ==
    \A q \in Procs :
        (/\ useCache /\ Succeeded(q) /\ frame[q].ret # Nil
         /\ frame[q].op \in {"QueryKey", "LoadFromPath"}
         /\ \E p \in Procs : frame[p].op = "LoadFromPath" /\ frame[p].file = frame[q].ret)
        => heap[frame[q].ret].Stat # NoStat

\* ---- C11 ----
\* A call of Lines() was made on the record and returned without error.
LinesSucceededBefore == lcall.oks > 0

LinesCallStep == lcall'.n = lcall.n + 1

\* C11: once a call of Lines() has succeeded on a record, whatever its Data
\* (empty Data included), every later call returns the same sequence without
\* scanning again: the scan is performed at most once.
C11_ScanOnce ==
    [][(LinesSucceededBefore /\ LinesCallStep)
        => /\ lcall'.scans = lcall.scans
           /\ lcall'.err = ErrNone
           /\ lcall'.ret = lcall.ret]_vars

\* ---- C12 ----
C12_AfterFailure ==
    lcall.err = ErrScan
    => /\ lcall.ret = NoLines
       /\ loadedFile.lines = NoLines
       /\ lcall.scans = lcall.n

C12_RetryStep ==
    /\ loadedFile'.Data = loadedFile.Data
    /\ (lcall.err = ErrScan /\ LinesCallStep) => lcall'.scans = lcall.scans + 1

\* C12: a call of Lines() whose scan fails returns the error and no lines,
\* leaves the record without a memoized value and with its Data as it was,
\* and the next call scans again.
C12_ScanFailure == [](C12_AfterFailure) /\ [][C12_RetryStep]_vars

\* Two calls have failed on data whose first line is fine and whose second
\* line is too long.
C12_Witness ==
    /\ loadedFile.Data = <<"a", LF, "a", "b">>
    /\ lcall.err = ErrScan
    /\ lcall.scans = 2

\* ---- C13 ----
\* Every run of bytes without a newline is shorter than the token limit.
WithinLimit(data) ==
    \A i \in 1..(Len(data) - MaxTokenSize + 1) :
        \E k \in i..(i + MaxTokenSize - 1) : data[k] = LF

\* The reference split: a line starts at the first byte and after every
\* newline, as long as there is a byte there; it runs up to the next newline
\* or the end of the data, and loses its terminator (the newline, and the
\* carriage return before it).
LineStarts(data) == {i \in 1..Len(data) : i = 1 \/ data[i - 1] = LF}

LineEnd(data, i) ==
    CHOOSE j \in i..(Len(data) + 1) :
        /\ j = Len(data) + 1 \/ data[j] = LF
        /\ \A k \in i..(j - 1) : data[k] # LF

RefSplit(data) ==
    LET starts == LineStarts(data)
        Kth(k) == CHOOSE i \in starts : Cardinality({j \in starts : j < i}) = k - 1
    IN  [k \in 1..Cardinality(starts) |->
            DropCR(SubSeq(data, Kth(k), LineEnd(data, Kth(k)) - 1))]

\* C13: for every Data within the line-length limit, Lines() succeeds and
\* returns the reference split of Data on line terminators, terminators
\* stripped, interior empty lines kept, and no empty line after a trailing
\* terminator.
C13_ReferenceSplit ==
    (lcall.n > 0 /\ WithinLimit(loadedFile.Data))
    => /\ lcall.err = ErrNone
       /\ lcall.ret = RefSplit(loadedFile.Data)

\* Lines() has returned a, an empty line and b for "a\n\nb\n".
C13_Witness ==
    /\ loadedFile.Data = <<"a", LF, LF, "b", LF>>
    /\ lcall.n > 0
    /\ lcall.ret = << <<"a">>, <<>>, <<"b">> >>

\* ---- C14 ----
InitDone(p, api) == ipc[p] = "done" /\ iframe[p].api = api

\* C14: however many goroutines call GlobalFileCache() first and at once,
\* one cache is constructed, and every call returns that one instance, never
\* nil and never before its construction is finished: its table is empty and
\* its useCache is what test detection says.
C14_OneInstance ==
    /\ gFileCache \in {Nil, 1}
    /\ \A p \in Procs :
        InitDone(p, "GlobalFileCache")
        => /\ iframe[p].cache = 1
           /\ gFileCache = 1
           /\ once.done
           /\ files = <<>>
           /\ useCache = ~(gRunningAsBazelTest \/ testingFlag)

\* Every goroutine has called GlobalFileCache() and got the cache, which
\* bypasses its table because the process is a test.
C14_Witness ==
    /\ \A p \in Procs : InitDone(p, "GlobalFileCache") /\ iframe[p].cache = 1
    /\ ~useCache

\* ---- C15 ----
BazelExpected(e) ==
    \/ e[BazelTestVar] = "1"
    \/ \A v \in EnvVars \ {BazelTestVar} : e[v] # ""

C15_FirstEvaluation ==
    (~bazelCheckOnce.done /\ bazelCheckOnce'.done)
    => gRunningAsBazelTest' = BazelExpected(env)

C15_RunningAsTest ==
    \A p \in Procs :
        InitDone(p, "RunningAsTest")
        => /\ bazelCheckOnce.done
           /\ iframe[p].ret = (gRunningAsBazelTest \/ testingFlag)

\* C15: the first evaluation of RunningAsBazelTest() answers true exactly
\* when BAZEL_TEST is "1" or TEST_TARGET, TEST_WORKSPACE and TEST_TMPDIR are
\* all non-empty; RunningAsTest() answers true exactly when that answer is
\* true or the binary is a test binary.
C15_Detection == [](C15_RunningAsTest) /\ [][C15_FirstEvaluation]_vars

\* RunningAsTest() has answered true in a binary that is no test binary, with
\* BAZEL_TEST other than "1" and the three markers set.
C15_Witness ==
    /\ ~testingFlag
    /\ env[BazelTestVar] = "0"
    /\ \A v \in EnvVars \ {BazelTestVar} : env[v] = "x"
    /\ \E p \in Procs : InitDone(p, "RunningAsTest") /\ iframe[p].ret

\* ---- C16 ----
ReadsEnv(p) ==
    /\ ipc[p] \in {"b_env", "b_marker"}
    /\ ipc'[p] # ipc[p] \/ iframe'[p] # iframe[p]

Returns(p) == ipc[p] # "done" /\ ipc'[p] = "done"

C16_Step ==
    /\ bazelCheckOnce.done => gRunningAsBazelTest' = gRunningAsBazelTest
    /\ once.done => (useCache' = useCache /\ gFileCache' = gFileCache)
    /\ \A p \in Procs :
        /\ ReadsEnv(p) => ~bazelCheckOnce.done
        /\ (Returns(p) /\ iframe[p].api = "RunningAsBazelTest")
           => iframe'[p].ret = gRunningAsBazelTest
        /\ (Returns(p) /\ iframe[p].api = "RunningAsTest")
           => iframe'[p].ret = (gRunningAsBazelTest \/ testingFlag)

C16_SameAnswer ==
    \A p, q \in Procs :
        (ipc[p] = "done" /\ ipc[q] = "done" /\ iframe[p].api = iframe[q].api
         /\ iframe[p].api \in {"RunningAsBazelTest", "RunningAsTest"})
        => iframe[p].ret = iframe[q].ret

\* C16: once test detection has answered, its answer is fixed: the
\* environment is read during the first evaluation only, every call of
\* either predicate returns the memoized answer whatever the environment
\* has become and whoever calls, and the cache's bypass mode does not change
\* once the cache is constructed.
C16_Memoized == [](C16_SameAnswer) /\ [][C16_Step]_vars

\* Two goroutines have been told "no Bazel test", and the environment now
\* looks like a Bazel test.
C16_Witness ==
    /\ BazelExpected(env)
    /\ ~gRunningAsBazelTest
    /\ \A p \in Procs : InitDone(p, "RunningAsBazelTest") /\ ~iframe[p].ret

\* ---- C17 ----
\* The runfiles whose path ends in the requested path.
Matching(path) ==
    {i \in 1..Len(runfiles.list) :
        HasSuffix(ToUnixPath(runfiles.list[i].Path), ToUnixPath(path))}

RunfileFailed == rfcall.err # ErrNone /\ rfcall.out = NoPath

RunfileIs(path) == rfcall.err = ErrNone /\ rfcall.out = path

\* Outside every test mode the call fails.
C17_OutsideTests == (rfcall.called /\ ~IsTest) => RunfileFailed

\* Under Bazel the first runfile ending in the path is returned.
C17_UnderBazelMatch ==
    (rfcall.called /\ IsBazelTest /\ ~runfiles.err /\ Matching(rfcall.path) # {})
    => \E i \in Matching(rfcall.path) :
        /\ RunfileIs(runfiles.list[i].Path)
        /\ \A j \in Matching(rfcall.path) : i <= j

\* The path is resolved through the filesystem: found, it is the result.
C17_ThroughFilesystem ==
    IF rfcall.stat = StatFound THEN RunfileIs(rfcall.path) ELSE RunfileFailed

\* C17 as stated: RunfilePath fails outside every test mode; under Bazel it
\* returns the runfile whose path ends in the requested path when there is
\* one, and otherwise resolves the path through the plain filesystem.
C17_FilesystemFallback ==
    /\ C17_OutsideTests
    /\ C17_UnderBazelMatch
    /\ (rfcall.called /\ IsBazelTest /\ ~runfiles.err /\ Matching(rfcall.path) = {})
       => C17_ThroughFilesystem

\* C17, amended: RunfilePath fails outside every test mode; under Bazel it
\* returns the first runfile whose path ends in the requested path, and
\* fails when the runfiles cannot be listed or none matches, whatever the
\* filesystem holds; in a test outside Bazel it resolves the path through
\* the plain filesystem, failing unless the file is found.
C17_Resolution ==
    /\ C17_OutsideTests
    /\ C17_UnderBazelMatch
    /\ (rfcall.called /\ IsBazelTest /\ (runfiles.err \/ Matching(rfcall.path) = {}))
       => RunfileFailed
    /\ (rfcall.called /\ IsTest /\ ~IsBazelTest) => C17_ThroughFilesystem

\* Under Bazel, with runfiles listed and none matching, the call has failed
\* for a path that the filesystem holds.
C17_Witness ==
    /\ rfcall.called /\ IsBazelTest /\ ~runfiles.err
    /\ Len(runfiles.list) > 0
    /\ Matching(rfcall.path) = {}
    /\ rfcall.stat = StatFound
    /\ rfcall.err = ErrCannotFind

\* ---- C18 ----
\* The only calls so far: one LoadFromPath(k, path, false) per goroutine, on
\* one key, of a readable file, with the cache in use.
C18_Scenario ==
    /\ useCache
    /\ ncalls = Cardinality(Started)
    /\ \A p \in Started :
        /\ frame[p].op = "LoadFromPath" /\ ~frame[p].overwrite
        /\ disk[frame[p].path] \in Data
    /\ \A p, q \in Started : frame[p].key = frame[q].key

\* C18: with the cache in use, when the only calls are concurrent
\* LoadFromPath(k, path, false) calls on one key and a readable file, no call
\* fails with the key-in-use error, and all calls return one record, the one
\* stored under k.
C18_SameRecord ==
    C18_Scenario =>
        /\ \A p \in Started : Done(p) => frame[p].err # ErrKeyInUse
        /\ \A p \in Started :
            Succeeded(p)
            => /\ Present(frame[p].key)
               /\ frame[p].ret = files[frame[p].key]

\* ---- C19 ----
Fails(p) == pc[p] # "done" /\ pc'[p] = "done" /\ frame'[p].err # ErrNone

\* The steps a failing call is made of: the lookups, the stat and the read.
C19_StepsOfFailure(p) ==
    (\E l \in {"qk", "lp_check", "lp_stat", "lp_read"} : Steps(p, l))
    => files' = files /\ heap' = heap

C19_FailStep(p) ==
    Fails(p) => /\ files' = files
                /\ heap' = heap
                /\ frame'[p].ret = Nil

\* A LoadFromPath that gets to a file it cannot stat or read fails there.
C19_UnreadableStep(p) ==
    /\ (Steps(p, "lp_stat") /\ disk[frame[p].path] = Absent)
       => Fails(p) /\ frame'[p].err = ErrStat
    /\ (Steps(p, "lp_read") /\ disk[frame[p].path] \in {Absent, NoPerm})
       => Fails(p) /\ frame'[p].err = ErrRead

\* C19: a failing cache operation leaves the table as it was: a LoadFromPath
\* whose stat or read fails returns the error and no record and inserts or
\* replaces nothing, whether or not the key was present and whatever
\* overwrite is, and QueryKey never changes the table.
C19_FailureLeavesTable ==
    [][\A p \in Procs :
        C19_StepsOfFailure(p) /\ C19_FailStep(p) /\ C19_UnreadableStep(p)]_vars

\* LoadFromPath(k, path, true) has failed to read the file while k was in the
\* table, and k is still mapped to the record stored before.
C19_Witness ==
    \E p \in Procs :
        /\ Done(p) /\ frame[p].op = "LoadFromPath" /\ frame[p].overwrite
        /\ frame[p].err = ErrRead /\ frame[p].ret = Nil
        /\ Present(frame[p].key)
        /\ Len(heap) = 1

\* ---- C20 ----
RevCallStep(op) == revcall'.n = revcall.n + 1 /\ revcall'.op = op

\* C20: with DisallowKeyCollision false, NewFromData(key, data, false) on a
\* key that is not present succeeds and stores the record, which QueryKey
\* then finds; it fails with the key-in-use error only when the key is
\* present.
C20_FreshKeyStored ==
    [][(RevCallStep("NewFromData") /\ ~rev.DisallowKeyCollision /\ ~revcall'.overwrite)
        => IF RevPresent(revcall'.key)
           THEN revcall'.err = ErrKeyInUse /\ rev'.files = rev.files
           ELSE /\ revcall'.err = ErrNone
                /\ revcall'.key \in DOMAIN rev'.files
                /\ rev'.files[revcall'.key] = revcall'.ret
                /\ revcall'.ret.Data = revcall'.data]_vars

====
